---- MODULE Spec2Model ----
(***************************************************************************)
(* RelayBoard (src/src/rs485_relay_board/base.py): a driver that turns     *)
(* relay operations into Modbus register transactions on a minimalmodbus   *)
(* Instrument (self.board).                                                *)
(*                                                                         *)
(* A caller (a thread) is either outside the board's methods, or blocked   *)
(* inside the one transport call its method made.  A method is modelled by *)
(* an operator named after it, giving what the method does up to its       *)
(* transport call (raise, or the request it hands to self.board), by an    *)
(* action that runs it for a caller, and by the actions in which the       *)
(* transport call returns or raises and the method finishes.               *)
(* The logger.info call that opens each method has no effect on control    *)
(* flow and is left out.                                                   *)
(***************************************************************************)
EXTENDS Integers, Sequences, FiniteSets, TLC

VARIABLES
    channels,   \* self.channels
    pc,         \* per caller: "idle", "transport" (inside self.board.<call>), "returned"
    call,       \* per caller: the method call it made last (name and arguments)
    repeat,     \* per caller: that call repeats the caller's previous call
    issued,     \* per caller: the transport requests that call handed to self.board
    reply,      \* per caller: what self.board answered to that call's request
    outcome     \* per caller: what the method call gave its caller

vars == <<channels, pc, call, repeat, issued, reply, outcome>>

(***************************** bounds *************************************)
MaxChannels == 3
NumThreads == 2

Threads == 1..NumThreads
\* the caller of the single-threaded use
MainThread == CHOOSE t \in Threads : \A u \in Threads : t <= u

\* values a caller may pass
ChannelInputs == (-1)..(MaxChannels + 1)
SecondsInputs == {-1, 0, 1, 30, 255, 256, 286}
LengthInputs == (-1)..(MaxChannels + 1)
\* 16-bit register contents the board may report
RegValues == {0, 1, 2, 65535}

(**************************** exceptions **********************************)
InvalidChannel == "ValueError: Invalid number of channel."
InvalidDelay == "ValueError: Delay can be only in range 0-255 seconds"
InvalidRange == "ValueError: Invalid length."
ValidationErrors == {InvalidChannel, InvalidDelay, InvalidRange}
\* what the transport may raise on the wire (serial timeout, bad frame)
TransportErrors == {"NoResponseError", "InvalidResponseError"}
\* what the transport may raise for a register count it does not accept
CountRejected == "ValueError: number of registers"

(***************************** records ************************************)
Call(op, channel, state, seconds, length) ==
    [op |-> op, channel |-> channel, state |-> state, seconds |-> seconds,
     length |-> length]
NoCall == Call("none", 0, FALSE, 0, 0)

Request(fn, address, value, count) ==
    [fn |-> fn, address |-> address, value |-> value, count |-> count]
NoRequest == Request("none", 0, 0, 0)

NoReply == [status |-> "none", error |-> "", data |-> <<>>]
NoOutcome == [kind |-> "none", error |-> "", value |-> <<>>]
Pending == [kind |-> "pending", error |-> "", value |-> <<>>]

\* a method ends by raising: nothing is handed to the transport
Raise(err) == [kind |-> "raise", error |-> err, request |-> NoRequest]

\* self.board.write_register(address, value=value, functioncode=6)
write_register(address, value) ==
    [kind |-> "transport", error |-> "",
     request |-> Request("write_register", address, value, 1)]
\* self.board.read_register(address)
read_register(address) ==
    [kind |-> "transport", error |-> "",
     request |-> Request("read_register", address, 0, 1)]
\* self.board.read_registers(address, number_of_registers=count)
read_registers(address, count) ==
    [kind |-> "transport", error |-> "",
     request |-> Request("read_registers", address, 0, count)]

(************************** pure helpers **********************************)
Pow2(n) == 2 ^ n
ShiftLeft(x, n) == x * Pow2(n)

RECURSIVE BitOr(_, _)
BitOr(a, b) ==
    IF a = 0 THEN b
    ELSE IF b = 0 THEN a
    ELSE (IF (a % 2 = 1) \/ (b % 2 = 1) THEN 1 ELSE 0)
         + 2 * BitOr(a \div 2, b \div 2)

HighByte(v) == (v \div 256) % 256
LowByte(v) == v % 256

(***************************** validation *********************************)
\* a variant of check_channel_number that counts channels from 0
check_channel_number_from_zero(channel) == 0 <= channel /\ channel <= channels

\* TRUE when the check passes, FALSE when it raises
check_channel_number(channel) == 1 <= channel /\ channel <= channels

\* a variant of check_seconds that lets 256 through
check_seconds_to_256(seconds) == 0 <= seconds /\ seconds <= 256

check_seconds(seconds) == 0 <= seconds /\ seconds <= 255

(****************** the methods, up to their transport call ***************)
open_relay(channel) ==
    IF ~check_channel_number(channel) THEN Raise(InvalidChannel)
    ELSE write_register(channel, \H0100)

close_relay(channel) ==
    IF ~check_channel_number(channel) THEN Raise(InvalidChannel)
    ELSE write_register(channel, \H0200)

\* a variant of set_relay with the two branches swapped
set_relay_swapped(channel, state) ==
    IF state THEN close_relay(channel) ELSE open_relay(channel)

set_relay(channel, state) ==
    IF state THEN open_relay(channel) ELSE close_relay(channel)

toggle(channel) ==
    IF ~check_channel_number(channel) THEN Raise(InvalidChannel)
    ELSE write_register(channel, \H0300)

latch(channel) ==
    IF ~check_channel_number(channel) THEN Raise(InvalidChannel)
    ELSE write_register(channel, \H0400)

momentary(channel) ==
    IF ~check_channel_number(channel) THEN Raise(InvalidChannel)
    ELSE write_register(channel, \H0500)

\* a variant of delay_value that shifts the seconds instead of the code
delay_value_swapped(seconds) == \H06 + ShiftLeft(seconds, 8)

delay_value(seconds) == ShiftLeft(\H06, 8) + seconds

delay(channel, seconds) ==
    IF ~check_channel_number(channel) THEN Raise(InvalidChannel)
    ELSE IF ~check_seconds(seconds) THEN Raise(InvalidDelay)
    ELSE write_register(channel, delay_value(seconds))

open_all == write_register(0, \H0700)

close_all == write_register(0, \H0800)

read_relay(channel) ==
    IF ~check_channel_number(channel) THEN Raise(InvalidChannel)
    ELSE read_register(channel)

\* a variant of read_relays whose window is one channel short
read_relays_short_window(start_channel, length) ==
    IF ~check_channel_number(start_channel) THEN Raise(InvalidChannel)
    ELSE IF channels - start_channel < length THEN Raise(InvalidRange)
    ELSE read_registers(start_channel, length)

read_relays(start_channel, length) ==
    IF ~check_channel_number(start_channel) THEN Raise(InvalidChannel)
    ELSE IF channels - start_channel + 1 < length THEN Raise(InvalidRange)
    ELSE read_registers(start_channel, length)

\* a variant of read_all_relays that starts at channel 0
read_all_relays_from_zero == read_relays(0, channels)

read_all_relays == read_relays(1, channels)

(************* the methods, from their transport call's return ************)
\* the write methods end after write_register: they return None
write_return == [kind |-> "returned", error |-> "", value |-> <<>>]

\* a variant of read_relay_return that tests truthiness
read_relay_return_truthy(x) ==
    [kind |-> "returned", error |-> "", value |-> <<x # 0>>]

\* return 1 == self.board.read_register(channel)
read_relay_return(x) ==
    [kind |-> "returned", error |-> "", value |-> <<1 = x>>]

\* return tuple(1 == x for x in self.board.read_registers(...))
read_relays_return(xs) ==
    [kind |-> "returned", error |-> "",
     value |-> [i \in 1..Len(xs) |-> 1 = xs[i]]]

\* a variant of transport_raise that wraps the error in one of its own
transport_raise_wrapped(err) ==
    [kind |-> "raised", error |-> "RelayBoardError", value |-> <<>>]

\* no method catches what the transport raises
transport_raise(err) == [kind |-> "raised", error |-> err, value |-> <<>>]

(******************************* actions **********************************)
\* __init__ stores the channel count it is given; boards have at least one
\* channel (the count is not validated by the code)
Init ==
    /\ channels \in 1..MaxChannels
    /\ pc = [t \in Threads |-> "idle"]
    /\ call = [t \in Threads |-> NoCall]
    /\ repeat = [t \in Threads |-> FALSE]
    /\ issued = [t \in Threads |-> <<>>]
    /\ reply = [t \in Threads |-> NoReply]
    /\ outcome = [t \in Threads |-> NoOutcome]

\* a variant of Invoke that remembers the last command and does not send it
\* again
InvokeCached(t, c, plan) ==
    /\ pc[t] # "transport"
    /\ call' = [call EXCEPT ![t] = c]
    /\ repeat' = [repeat EXCEPT ![t] = (pc[t] = "returned" /\ call[t] = c)]
    /\ reply' = [reply EXCEPT ![t] = NoReply]
    /\ IF plan.kind = "raise"
       THEN /\ pc' = [pc EXCEPT ![t] = "returned"]
            /\ issued' = [issued EXCEPT ![t] = <<>>]
            /\ outcome' = [outcome EXCEPT ![t] =
                   [kind |-> "raised", error |-> plan.error, value |-> <<>>]]
       ELSE IF pc[t] = "returned" /\ call[t] = c /\ outcome[t].kind = "returned"
       THEN /\ pc' = [pc EXCEPT ![t] = "returned"]
            /\ issued' = [issued EXCEPT ![t] = <<>>]
            /\ outcome' = outcome
       ELSE /\ pc' = [pc EXCEPT ![t] = "transport"]
            /\ issued' = [issued EXCEPT ![t] = <<plan.request>>]
            /\ outcome' = [outcome EXCEPT ![t] = Pending]
    /\ UNCHANGED channels

\* caller t calls a method with the arguments c; plan is the method up to its
\* transport call
Invoke(t, c, plan) ==
    /\ pc[t] # "transport"
    /\ call' = [call EXCEPT ![t] = c]
    /\ repeat' = [repeat EXCEPT ![t] = (pc[t] = "returned" /\ call[t] = c)]
    /\ reply' = [reply EXCEPT ![t] = NoReply]
    /\ IF plan.kind = "raise"
       THEN /\ pc' = [pc EXCEPT ![t] = "returned"]
            /\ issued' = [issued EXCEPT ![t] = <<>>]
            /\ outcome' = [outcome EXCEPT ![t] =
                   [kind |-> "raised", error |-> plan.error, value |-> <<>>]]
       ELSE /\ pc' = [pc EXCEPT ![t] = "transport"]
            /\ issued' = [issued EXCEPT ![t] = <<plan.request>>]
            /\ outcome' = [outcome EXCEPT ![t] = Pending]
    /\ UNCHANGED channels

OpenRelay(t, channel) ==
    Invoke(t, Call("open_relay", channel, FALSE, 0, 0), open_relay(channel))

CloseRelay(t, channel) ==
    Invoke(t, Call("close_relay", channel, FALSE, 0, 0), close_relay(channel))

SetRelay(t, channel, state) ==
    Invoke(t, Call("set_relay", channel, state, 0, 0), set_relay(channel, state))

Toggle(t, channel) ==
    Invoke(t, Call("toggle", channel, FALSE, 0, 0), toggle(channel))

Latch(t, channel) ==
    Invoke(t, Call("latch", channel, FALSE, 0, 0), latch(channel))

Momentary(t, channel) ==
    Invoke(t, Call("momentary", channel, FALSE, 0, 0), momentary(channel))

Delay(t, channel, seconds) ==
    Invoke(t, Call("delay", channel, FALSE, seconds, 0), delay(channel, seconds))

OpenAll(t) ==
    Invoke(t, Call("open_all", 0, FALSE, 0, 0), open_all)

CloseAll(t) ==
    Invoke(t, Call("close_all", 0, FALSE, 0, 0), close_all)

ReadRelay(t, channel) ==
    Invoke(t, Call("read_relay", channel, FALSE, 0, 0), read_relay(channel))

ReadRelays(t, start_channel, length) ==
    Invoke(t, Call("read_relays", start_channel, FALSE, 0, length),
           read_relays(start_channel, length))

ReadAllRelays(t) ==
    Invoke(t, Call("read_all_relays", 0, FALSE, 0, 0), read_all_relays)

\* the transport call of caller t ends: self.board answered with r and the
\* method finishes with result
Complete(t, r, result) ==
    /\ pc[t] = "transport"
    /\ reply' = [reply EXCEPT ![t] = r]
    /\ outcome' = [outcome EXCEPT ![t] = result]
    /\ pc' = [pc EXCEPT ![t] = "returned"]
    /\ UNCHANGED <<channels, call, repeat, issued>>

\* the request caller t is waiting on
Waiting(t) == issued[t][Len(issued[t])]

WriteRegisterReturns(t) ==
    /\ pc[t] = "transport"
    /\ Waiting(t).fn = "write_register"
    /\ Complete(t, [status |-> "ok", error |-> "", data |-> <<>>], write_return)

ReadRegisterReturns(t, x) ==
    /\ pc[t] = "transport"
    /\ Waiting(t).fn = "read_register"
    /\ Complete(t, [status |-> "ok", error |-> "", data |-> <<x>>],
                read_relay_return(x))

\* the register lists a read of count registers can return: one value per
\* register.  The code passes any count that fits the window, also 0 and
\* negative ones: there the transport has no register to return, and it
\* either answers with none or rejects the count (TransportRejects)
Responses(count) ==
    IF count >= 1 THEN [1..count -> RegValues] ELSE {<<>>}

ReadRegistersReturns(t) ==
    /\ pc[t] = "transport"
    /\ Waiting(t).fn = "read_registers"
    /\ \E xs \in Responses(Waiting(t).count) :
           Complete(t, [status |-> "ok", error |-> "", data |-> xs],
                    read_relays_return(xs))

TransportRaises(t, err) ==
    /\ pc[t] = "transport"
    /\ Complete(t, [status |-> "error", error |-> err, data |-> <<>>],
                transport_raise(err))

TransportRejects(t) ==
    /\ pc[t] = "transport"
    /\ Waiting(t).fn = "read_registers"
    /\ Waiting(t).count < 1
    /\ Complete(t, [status |-> "rejected", error |-> CountRejected, data |-> <<>>],
                transport_raise(CountRejected))

\* one step of caller t, its arguments drawn from cs, ss and ls
Step(t, cs, ss, ls) ==
    \/ \E c \in cs : OpenRelay(t, c)
    \/ \E c \in cs : CloseRelay(t, c)
    \/ \E c \in cs, s \in BOOLEAN : SetRelay(t, c, s)
    \/ \E c \in cs : Toggle(t, c)
    \/ \E c \in cs : Latch(t, c)
    \/ \E c \in cs : Momentary(t, c)
    \/ \E c \in cs, s \in ss : Delay(t, c, s)
    \/ OpenAll(t)
    \/ CloseAll(t)
    \/ \E c \in cs : ReadRelay(t, c)
    \/ \E c \in cs, l \in ls : ReadRelays(t, c, l)
    \/ ReadAllRelays(t)
    \/ WriteRegisterReturns(t)
    \/ \E x \in RegValues : ReadRegisterReturns(t, x)
    \/ ReadRegistersReturns(t)
    \/ \E e \in TransportErrors : TransportRaises(t, e)
    \/ TransportRejects(t)

\* one caller at a time uses the board
Next == Step(MainThread, ChannelInputs, SecondsInputs, LengthInputs)

Spec == Init /\ [][Next]_vars

\* NumThreads callers share the board
NextConcurrent ==
    \E t \in Threads : Step(t, {0, 1}, {0, 256}, {-1, 1})

SpecConcurrent == Init /\ [][NextConcurrent]_vars

(************************ reading a caller's state ************************)
Called(t) == pc[t] # "idle"
Done(t) == pc[t] = "returned"
InRange(channel) == channel \in 1..channels
Rejected(t, err) ==
    /\ Done(t)
    /\ outcome[t].kind = "raised"
    /\ outcome[t].error = err
    /\ issued[t] = <<>>
Succeeded(t) == Done(t) /\ outcome[t].kind = "returned"

\* what caller t's call did up to its transport call, read off the state
Observed(t) ==
    IF issued[t] = <<>>
    THEN [kind |-> "raise", error |-> outcome[t].error, request |-> NoRequest]
    ELSE [kind |-> "transport", error |-> "", request |-> issued[t][1]]

\* the outcome of that call's validation
ValidationOutcome(t) ==
    IF outcome[t].error \in ValidationErrors THEN outcome[t].error ELSE "passed"

\* the method a call record names, run on the record's arguments
PlanOf(c) ==
    CASE c.op = "open_relay" -> open_relay(c.channel)
      [] c.op = "close_relay" -> close_relay(c.channel)
      [] c.op = "set_relay" -> set_relay(c.channel, c.state)
      [] c.op = "toggle" -> toggle(c.channel)
      [] c.op = "latch" -> latch(c.channel)
      [] c.op = "momentary" -> momentary(c.channel)
      [] c.op = "delay" -> delay(c.channel, c.seconds)
      [] c.op = "open_all" -> open_all
      [] c.op = "close_all" -> close_all
      [] c.op = "read_relay" -> read_relay(c.channel)
      [] c.op = "read_relays" -> read_relays(c.channel, c.length)
      [] c.op = "read_all_relays" -> read_all_relays

PerChannelOps ==
    {"open_relay", "close_relay", "set_relay", "toggle", "latch", "momentary",
     "delay", "read_relay", "read_relays"}

(******************************* C1 ***************************************)
\* C1: a per-channel operation (read_relays by its start_channel) called with
\* a channel outside [1, channels] fails with InvalidChannel and hands nothing
\* to the transport.
C1_InvalidChannelRejected ==
    \A t \in Threads :
        (Called(t) /\ call[t].op \in PerChannelOps /\ ~InRange(call[t].channel))
            => Rejected(t, InvalidChannel)

\* a delay on channel channels+1 whose seconds are out of range as well
C1_Witness ==
    \E t \in Threads :
        /\ call[t].op = "delay"
        /\ call[t].channel = channels + 1
        /\ call[t].seconds = 256
        /\ Rejected(t, InvalidChannel)

(******************************* C2 ***************************************)
\* the high byte the specification's table gives each command
CommandCode(c) ==
    CASE c.op = "open_relay" -> 1
      [] c.op = "close_relay" -> 2
      [] c.op = "set_relay" -> IF c.state THEN 1 ELSE 2
      [] c.op = "toggle" -> 3
      [] c.op = "latch" -> 4
      [] c.op = "momentary" -> 5
      [] c.op = "delay" -> 6
      [] c.op = "open_all" -> 7
      [] c.op = "close_all" -> 8
CommandOps ==
    {"open_relay", "close_relay", "set_relay", "toggle", "latch", "momentary",
     "delay", "open_all", "close_all"}
BroadcastOps == {"open_all", "close_all"}
ValidCommand(c) ==
    /\ c.op \in CommandOps
    /\ c.op \notin BroadcastOps => InRange(c.channel)
    /\ c.op = "delay" => c.seconds \in 0..255
ExpectedWrite(c) ==
    Request("write_register",
            IF c.op \in BroadcastOps THEN 0 ELSE c.channel,
            BitOr(ShiftLeft(CommandCode(c), 8),
                  IF c.op = "delay" THEN c.seconds ELSE 0),
            1)
\* the high bytes the eight commands put on the wire
HighBytesUsed ==
    {HighByte(p.request.value) :
        p \in {open_relay(1), close_relay(1), toggle(1), latch(1), momentary(1),
               delay(1, 0), open_all, close_all}}

\* C2: a command called with valid arguments hands the transport exactly one
\* write_register(address, (high << 8) | low) with the table's address, high
\* byte and low byte; the eight high bytes differ pairwise; every seconds in
\* [0, 255] leaves the delay value's high byte 0x06 and is its low byte.
C2_CommandEncoding ==
    /\ \A t \in Threads :
           (Called(t) /\ ValidCommand(call[t]))
               => issued[t] = <<ExpectedWrite(call[t])>>
    /\ Cardinality(HighBytesUsed) = 8
    /\ \A s \in 0..255 :
           /\ delay_value(s) = BitOr(ShiftLeft(6, 8), s)
           /\ HighByte(delay_value(s)) = 6
           /\ LowByte(delay_value(s)) = s

\* delay(channels, 255) went out as 0x06FF and returned
C2_Witness ==
    \E t \in Threads :
        /\ call[t].op = "delay"
        /\ call[t].channel = channels
        /\ call[t].seconds = 255
        /\ Succeeded(t)
        /\ issued[t] = <<Request("write_register", channels, \H06FF, 1)>>

(******************************* C3 ***************************************)
\* C3 as stated: every delay call with seconds outside [0, 255] fails with
\* InvalidDelay and hands nothing to the transport.
C3_AsStated ==
    \A t \in Threads :
        (Called(t) /\ call[t].op = "delay" /\ call[t].seconds \notin 0..255)
            => Rejected(t, InvalidDelay)

\* C3 amended: a delay call with seconds outside [0, 255] hands nothing to the
\* transport; it fails with InvalidDelay when its channel is in
\* [1, channels], and with InvalidChannel when it is not (the channel is
\* checked first).
C3_InvalidDelayRejected ==
    \A t \in Threads :
        (Called(t) /\ call[t].op = "delay" /\ call[t].seconds \notin 0..255)
            => IF InRange(call[t].channel)
               THEN Rejected(t, InvalidDelay)
               ELSE Rejected(t, InvalidChannel)

C3_Witness ==
    \E t \in Threads :
        /\ call[t].op = "delay"
        /\ InRange(call[t].channel)
        /\ call[t].seconds = 256
        /\ Rejected(t, InvalidDelay)

(******************************* C4 ***************************************)
IsReadRelays(t) ==
    Called(t) /\ call[t].op = "read_relays" /\ InRange(call[t].channel)
Window(t) == channels - call[t].channel + 1
ReadRequest(t) ==
    Request("read_registers", call[t].channel, 0, call[t].length)
\* the booleans of the registers the transport returned, in register order
BoolsOfReply(t) == [i \in 1..Len(reply[t].data) |-> reply[t].data[i] = 1]

\* C4 as stated: for start_channel in [1, channels] and any integer length,
\* read_relays fails with InvalidRange and no transport call when the window
\* is shorter than length; otherwise it makes one read of length registers at
\* start_channel, succeeds and returns exactly length booleans in register
\* order (a failure on the wire aside).
C4_AsStated ==
    \A t \in Threads :
        IsReadRelays(t)
            => IF Window(t) < call[t].length
               THEN Rejected(t, InvalidRange)
               ELSE /\ issued[t] = <<ReadRequest(t)>>
                    /\ (Done(t) /\ reply[t].status # "error")
                           => /\ Succeeded(t)
                              /\ Len(outcome[t].value) = call[t].length
                              /\ outcome[t].value = BoolsOfReply(t)

\* C4 amended: as stated for the window check and the one read request,
\* which also goes out for a length of 0 or below; when the transport returns
\* registers, the call returns their booleans in register order, exactly
\* length of them if length >= 0; a negative length never yields length
\* booleans; whatever the transport raises is what the call raises.
C4_ReadRelaysWindow ==
    \A t \in Threads :
        IsReadRelays(t)
            => IF Window(t) < call[t].length
               THEN Rejected(t, InvalidRange)
               ELSE /\ issued[t] = <<ReadRequest(t)>>
                    /\ (Done(t) /\ reply[t].status = "ok")
                           => /\ Succeeded(t)
                              /\ outcome[t].value = BoolsOfReply(t)
                              /\ call[t].length >= 0
                                     => Len(outcome[t].value) = call[t].length
                    /\ (Done(t) /\ reply[t].status # "ok")
                           => /\ outcome[t].kind = "raised"
                              /\ outcome[t].error = reply[t].error
                    /\ (Done(t) /\ call[t].length < 0)
                           => ~(/\ Succeeded(t)
                                /\ Len(outcome[t].value) = call[t].length)

\* a read of the last two channels returned (closed, open)
C4_Witness ==
    \E t \in Threads :
        /\ IsReadRelays(t)
        /\ call[t].length = 2
        /\ Window(t) = 2
        /\ Succeeded(t)
        /\ reply[t].data = <<2, 1>>
        /\ outcome[t].value = <<FALSE, TRUE>>

(******************************* C5 ***************************************)
\* C5: read_relay on a channel in [1, channels] makes exactly one read of one
\* register at that address and returns TRUE exactly when the register holds
\* 1.
C5_ReadRelayEquality ==
    \A t \in Threads :
        (Called(t) /\ call[t].op = "read_relay" /\ InRange(call[t].channel))
            => /\ issued[t] = <<Request("read_register", call[t].channel, 0, 1)>>
               /\ (Done(t) /\ reply[t].status = "ok")
                      => /\ Succeeded(t)
                         /\ outcome[t].value = <<reply[t].data[1] = 1>>

\* the register held 2 and the relay read as closed
C5_Witness ==
    \E t \in Threads :
        /\ call[t].op = "read_relay"
        /\ InRange(call[t].channel)
        /\ Succeeded(t)
        /\ reply[t].data = <<2>>
        /\ outcome[t].value = <<FALSE>>

(******************************* C6 ***************************************)
InTransport == {t \in Threads : pc[t] = "transport"}

\* C6: callers sharing the board are serialized: at most one transport
\* transaction is in progress at any time.
C6_TransportSerialized == Cardinality(InTransport) <= 1

(******************************* C7 ***************************************)
\* C7: a call whose transport call failed ends raising the transport's own
\* error, having made that one transport call; every call either fails
\* validation with no transport call or makes exactly one.
C7_TransportErrorPropagates ==
    \A t \in Threads :
        /\ (Done(t) /\ reply[t].status = "error")
               => /\ outcome[t].kind = "raised"
                  /\ outcome[t].error = reply[t].error
                  /\ Len(issued[t]) = 1
        /\ Called(t)
               => \/ /\ outcome[t].error \in ValidationErrors
                     /\ Rejected(t, outcome[t].error)
                  \/ /\ outcome[t].error \notin ValidationErrors
                     /\ Len(issued[t]) = 1

C7_Witness ==
    \E t \in Threads :
        /\ call[t].op = "close_relay"
        /\ Done(t)
        /\ reply[t].status = "error"
        /\ reply[t].error = "NoResponseError"
        /\ outcome[t].error = "NoResponseError"

(******************************* C8 ***************************************)
Determined ==
    \A t \in Threads : Called(t) => Observed(t) = PlanOf(call[t])

\* C8: no call changes channels; what a call's validation decides and what it
\* hands to the transport follow from its arguments and channels alone; a
\* call repeated right after itself has the same validation outcome and hands
\* the transport the same request.
C8_Stateless ==
    [][/\ channels' = channels
       /\ Determined'
       /\ \A t \in Threads :
              (pc[t] = "returned" /\ call'[t] = call[t])
                  => /\ issued'[t] = issued[t]
                     /\ ValidationOutcome(t)' = ValidationOutcome(t)]_vars

\* close_relay called a second time in a row, its write on the wire again
C8_Witness ==
    \E t \in Threads :
        /\ call[t].op = "close_relay"
        /\ repeat[t]
        /\ pc[t] = "transport"
        /\ issued[t] = <<Request("write_register", call[t].channel, \H0200, 1)>>

(******************************* C9 ***************************************)
\* what a write method gives its caller once the transport has answered
WriteOutcome(t) ==
    IF reply[t].status = "ok" THEN write_return ELSE transport_raise(reply[t].error)

\* C9: set_relay(channel, TRUE) does what open_relay(channel) does and
\* set_relay(channel, FALSE) what close_relay(channel) does, for every
\* channel: the same rejection or the same transport request, and the same
\* outcome for the same answer of the transport.
C9_SetRelayDispatch ==
    \A t \in Threads :
        (Called(t) /\ call[t].op = "set_relay")
            => /\ Observed(t) = IF call[t].state
                                THEN open_relay(call[t].channel)
                                ELSE close_relay(call[t].channel)
               /\ (Done(t) /\ issued[t] # <<>>) => outcome[t] = WriteOutcome(t)

C9_Witness ==
    \E t \in Threads :
        /\ call[t].op = "set_relay"
        /\ call[t].state
        /\ InRange(call[t].channel)
        /\ Succeeded(t)
        /\ issued[t] = <<Request("write_register", call[t].channel, \H0100, 1)>>

(******************************* C10 **************************************)
\* C10: read_all_relays does what read_relays(1, channels) does: one read of
\* channels registers at address 1, returning channels booleans in register
\* order.
C10_ReadAllRelays ==
    \A t \in Threads :
        (Called(t) /\ call[t].op = "read_all_relays")
            => /\ Observed(t) = read_relays(1, channels)
               /\ issued[t] = <<Request("read_registers", 1, 0, channels)>>
               /\ (Done(t) /\ reply[t].status = "ok")
                      => /\ Succeeded(t)
                         /\ Len(outcome[t].value) = channels
                         /\ outcome[t].value = BoolsOfReply(t)

C10_Witness ==
    \E t \in Threads :
        /\ call[t].op = "read_all_relays"
        /\ channels = MaxChannels
        /\ Succeeded(t)
        /\ Len(outcome[t].value) = MaxChannels
        /\ outcome[t].value[1]
        /\ ~outcome[t].value[MaxChannels]

====
